---- MODULE Spec2Model ----
(***************************************************************************)
(* The useWebSocket hook (src/hooks/useWebSocket.ts) as a state machine.   *)
(*                                                                         *)
(* React state (useState) is the variables socket, data, isConnected,      *)
(* error and reconnectCount.  A render takes a snapshot of that state: the *)
(* closures it creates (connect, sendMessage, the effect's cleanup) read   *)
(* the snapshot, never the live state.  Each WebSocket keeps the closure   *)
(* of the connect() call that created it, so its handlers read the config  *)
(* and the reconnectCount of that render.                                  *)
(***************************************************************************)
EXTENDS Integers, Sequences, FiniteSets, TLC

\* ---------------------------------------------------------------- bounds
MaxSockets == 3        \* WebSocket objects constructed in one run

\* ------------------------------------------------------ program constants
DefaultReconnectAttempts == 5
DefaultReconnectInterval == 5000

\* ------------------------------------------------------------ JSON values
\* A JavaScript value is a record [kind, n]; {x: n} is Obj(n).
Undefined == [kind |-> "undefined", n |-> 0]
Null == [kind |-> "null", n |-> 0]
Num(n) == [kind |-> "number", n |-> n]
Obj(n) == [kind |-> "object", n |-> n]

Digit(n) == CASE n = 0 -> "0" [] n = 1 -> "1" [] n = 2 -> "2" [] OTHER -> "7"

\* JSON.stringify of a value
JSONStringify(v) ==
    CASE v.kind = "number" -> Digit(v.n)
      [] v.kind = "object" -> "{\"x\":" \o Digit(v.n) \o "}"
      [] v.kind = "null" -> "null"
      [] OTHER -> "undefined"

\* JSON.stringify({ type: "auth", apiKey })
AuthEnvelope(key) == "{\"type\":\"auth\",\"apiKey\":\"" \o key \o "\"}"

\* The raw text frames a server sends.
Frames == {"{not json", "{\"x\":1}", "null"}

\* JSON.parse: [ok, val]; ok = FALSE is the SyntaxError it throws.
JSONParse(f) ==
    CASE f = "{\"x\":1}" -> [ok |-> TRUE, val |-> Obj(1)]
      [] f = "{\"x\":2}" -> [ok |-> TRUE, val |-> Obj(2)]
      [] f = "7" -> [ok |-> TRUE, val |-> Num(7)]
      [] f = "0" -> [ok |-> TRUE, val |-> Num(0)]
      [] f = "null" -> [ok |-> TRUE, val |-> Null]
      [] OTHER -> [ok |-> FALSE, val |-> Undefined]

\* JavaScript truthiness of a value / of a string
Truthy(v) == v.kind = "object" \/ (v.kind = "number" /\ v.n # 0)
TruthyStr(s) == s # ""

\* ------------------------------------------------------------------ config
\* An optional field is a set holding no value (undefined) or one value.
Some(opt) == CHOOSE x \in opt : TRUE

GoodUrl == "ws://localhost:8000/status"
OtherUrl == "wss://ws.kraken.com"
BadUrl == "not a url"

\* new WebSocket(url) throws a SyntaxError unless the url parses as ws: / wss:
UrlParses(u) == u \in {GoodUrl, OtherUrl}

EmptyConfig ==
    [url |-> GoodUrl, apiKey |-> {}, subscribeMessage |-> {}, inlineSubscribe |-> FALSE,
     reconnect |-> {}, reconnectAttempts |-> {}, reconnectInterval |-> {}]

\* Configurations a consumer passes on the first render: no config at all
\* (Display), explicit reconnection settings (useAuthenticatedWebSocket), and a
\* url that does not parse.
Configs ==
    {EmptyConfig, [EmptyConfig EXCEPT !.url = BadUrl]}
    \cup
    {[EmptyConfig EXCEPT !.reconnect = {r}, !.reconnectAttempts = {a},
                         !.reconnectInterval = {1000}] : r \in BOOLEAN, a \in {0, 1}}

\* Configurations with control messages: every combination of an absent, a
\* falsy and a usable apiKey and subscribeMessage without reconnection, both
\* with the default settings, and an exchange preset, which passes the
\* subscribe object inline.
ControlConfigs ==
    {[EmptyConfig EXCEPT !.apiKey = k, !.subscribeMessage = s, !.reconnect = {FALSE}] :
        k \in {{}, {""}, {"k1"}}, s \in {{}, {Num(0)}, {Obj(1)}}}
    \cup
    {[EmptyConfig EXCEPT !.apiKey = {"k1"}, !.subscribeMessage = {Obj(1)}],
     [EmptyConfig EXCEPT !.subscribeMessage = {Obj(1)}, !.inlineSubscribe = TRUE]}

\* The configs a later render can bring after config c: the same, or the
\* caller's url changed for another one, which parses or does not.
NextConfigs(c) ==
    {c} \cup (IF c.url = GoodUrl THEN {[c EXCEPT !.url = u] : u \in {OtherUrl, BadUrl}}
              ELSE {})

\* The destructuring of config with its defaults.
Reconnect(c) == IF c.reconnect = {} THEN TRUE ELSE Some(c.reconnect)
ReconnectAttempts(c) ==
    IF c.reconnectAttempts = {} THEN DefaultReconnectAttempts ELSE Some(c.reconnectAttempts)
ReconnectInterval(c) ==
    IF c.reconnectInterval = {} THEN DefaultReconnectInterval ELSE Some(c.reconnectInterval)


\* connect's dependency list: the effect re-runs when one of them changes.
Deps(c, k) ==
    <<c.url, c.apiKey, c.subscribeMessage, Reconnect(c), ReconnectAttempts(c),
      ReconnectInterval(c), k>>

\* An object literal written in the caller's body is a new object each render.
FreshEachRender(c) ==
    /\ c.inlineSubscribe
    /\ c.subscribeMessage # {}
    /\ Some(c.subscribeMessage).kind = "object"

DepsChanged(c0, k0, c1, k1) == Deps(c0, k0) # Deps(c1, k1) \/ FreshEachRender(c1)

\* ------------------------------------------------------------------- state
VARIABLES
    phase,           \* "init" (rendered, effect not yet run), "mounted", "unmounted"
    cfg,             \* the config of the last render
    socket,          \* useState: index into sockets, 0 is null
    data,            \* useState
    isConnected,     \* useState
    error,           \* useState
    reconnectCount,  \* useState
    renderedSocket,  \* socket as the last render saw it (sendMessage's closure)
    renderedCount,   \* reconnectCount as the last render saw it (connect's closure)
    cleanupSocket,   \* socket as seen by the render whose effect ran last
    sockets,         \* every WebSocket constructed, in order of construction
    timers,          \* pending setTimeout callbacks, by the socket whose close set them
    last,            \* the event processed last
    timerConnects    \* connect() calls made by timers since the last onopen

vars ==
    <<phase, cfg, socket, data, isConnected, error, reconnectCount, renderedSocket,
      renderedCount, cleanupSocket, sockets, timers, last, timerConnects>>

NoError == "<null>"
ParseError == "Failed to parse message data"
TransportError == "WebSocket error occurred"
ClosedError == "WebSocket connection closed"
NotConnectedError == "WebSocket is not connected"
ConstructionError == "Failed to create WebSocket connection: SyntaxError"

Messages == {Obj(2)}


\* The event "the frame f was decoded", as last records it
Decoded(f) == "decoded " \o f

\* A state setter of a component that is no longer mounted does nothing.
Live == phase = "mounted"
Set(new, old) == IF Live THEN new ELSE old

RECURSIVE Pow2(_)
Pow2(k) == IF k <= 0 THEN 1 ELSE 2 * Pow2(k - 1)

\* Mutant of ShouldReconnect: the reconnect flag is not consulted.
ShouldReconnectIgnoringFlag(c, k) == k < ReconnectAttempts(c)

\* ws.onclose: the retry decision and the delay, on the closure's values
ShouldReconnect(c, k) == Reconnect(c) /\ k < ReconnectAttempts(c)
BackoffDelay(c, k) == ReconnectInterval(c) * Pow2(k)

\* Mutant of OpenSends: the subscribe message goes out before the auth envelope.
OpenSendsSubscribeFirst(c) ==
    (IF c.subscribeMessage # {} /\ Truthy(Some(c.subscribeMessage))
        THEN <<JSONStringify(Some(c.subscribeMessage))>> ELSE <<>>)
    \o
    (IF c.apiKey # {} /\ TruthyStr(Some(c.apiKey))
        THEN <<AuthEnvelope(Some(c.apiKey))>> ELSE <<>>)

\* ws.onopen: the control messages, in the order sent
OpenSends(c) ==
    (IF c.apiKey # {} /\ TruthyStr(Some(c.apiKey))
        THEN <<AuthEnvelope(Some(c.apiKey))>> ELSE <<>>)
    \o
    (IF c.subscribeMessage # {} /\ Truthy(Some(c.subscribeMessage))
        THEN <<JSONStringify(Some(c.subscribeMessage))>> ELSE <<>>)

\* new WebSocket(url, protocols) in the closure of a render with config c, count k
NewWebSocket(c, k, by) ==
    [readyState |-> "CONNECTING", cfg |-> c, count |-> k, sent |-> <<>>,
     callerSent |-> {}, by |-> by]

\* WebSocket.close(): starts the closing handshake of a socket not yet closing
WsClose(socks, i) ==
    IF i = 0 \/ socks[i].readyState \in {"CLOSING", "CLOSED"}
    THEN socks
    ELSE [socks EXCEPT ![i].readyState = "CLOSING"]

\* Mutant of Connect: the exception of new WebSocket is swallowed without setError.
ConnectSwallowsError(c, k, by, socks, mounted) ==
    IF UrlParses(c.url)
    THEN /\ sockets' = Append(socks, [readyState |-> "CONNECTING", cfg |-> c, count |-> k,
                                      sent |-> <<>>, callerSent |-> {}, by |-> by])
         /\ socket' = IF mounted THEN Len(socks) + 1 ELSE socket
         /\ error' = error
    ELSE /\ sockets' = socks
         /\ socket' = socket
         /\ error' = error

\* connect() of the render with config c and count k, on the sockets `socks`;
\* `mounted` says whether setSocket / setError reach a mounted component.
Connect(c, k, by, socks, mounted) ==
    IF UrlParses(c.url)
    THEN /\ sockets' = Append(socks, NewWebSocket(c, k, by))
         /\ socket' = IF mounted THEN Len(socks) + 1 ELSE socket
         /\ error' = error
    ELSE /\ sockets' = socks
         /\ socket' = socket
         /\ error' = IF mounted THEN ConstructionError ELSE error

Start(configs) ==
    /\ phase = "init"
    /\ cfg \in configs
    /\ socket = 0
    /\ data = Null
    /\ isConnected = FALSE
    /\ error = NoError
    /\ reconnectCount = 0
    /\ renderedSocket = 0
    /\ renderedCount = 0
    /\ cleanupSocket = 0
    /\ sockets = <<>>
    /\ timers = {}
    /\ last = "init"
    /\ timerConnects = 0

Init == Start(Configs)
InitControl == Start(ControlConfigs)

\* useEffect, first run: connect() of the first render
Mount ==
    /\ phase = "init"
    /\ phase' = "mounted"
    /\ Connect(cfg, reconnectCount, "effect", sockets, TRUE)
    /\ last' = "mount"
    /\ UNCHANGED <<cfg, data, isConnected, reconnectCount, renderedSocket, renderedCount,
                   cleanupSocket, timers, timerConnects>>

\* A render with config c, and the effect when connect changed: the previous
\* effect's cleanup, then connect() of this render.
Render(c) ==
    /\ Live
    /\ \/ c # cfg
       \/ socket # renderedSocket
       \/ reconnectCount # renderedCount
       \/ FreshEachRender(c)
    /\ cfg' = c
    /\ renderedSocket' = socket
    /\ renderedCount' = reconnectCount
    /\ IF DepsChanged(cfg, renderedCount, c, reconnectCount)
       THEN /\ Len(sockets) < MaxSockets
            /\ Connect(c, reconnectCount, "effect", WsClose(sockets, cleanupSocket), TRUE)
            /\ cleanupSocket' = socket
       ELSE UNCHANGED <<sockets, socket, error, cleanupSocket>>
    /\ last' = "render"
    /\ UNCHANGED <<phase, data, isConnected, reconnectCount, timers, timerConnects>>

\* The effect's cleanup on unmount
Unmount ==
    /\ Live
    /\ phase' = "unmounted"
    /\ sockets' = WsClose(sockets, cleanupSocket)
    /\ last' = "unmount"
    /\ UNCHANGED <<cfg, socket, data, isConnected, error, reconnectCount, renderedSocket,
                   renderedCount, cleanupSocket, timers, timerConnects>>

\* Mutant of OnOpen: setReconnectCount(0) is missing.
OnOpenKeepsCount(i) ==
    /\ sockets[i].readyState = "CONNECTING"
    /\ isConnected' = Set(TRUE, isConnected)
    /\ error' = Set(NoError, error)
    /\ sockets' = [sockets EXCEPT ![i].readyState = "OPEN",
                                  ![i].sent = OpenSends(sockets[i].cfg)]
    /\ timerConnects' = 0
    /\ last' = "open"
    /\ UNCHANGED <<phase, cfg, socket, data, reconnectCount, renderedSocket, renderedCount,
                   cleanupSocket, timers>>

\* ws.onopen of socket i
OnOpen(i) ==
    /\ sockets[i].readyState = "CONNECTING"
    /\ isConnected' = Set(TRUE, isConnected)
    /\ error' = Set(NoError, error)
    /\ reconnectCount' = Set(0, reconnectCount)
    /\ sockets' = [sockets EXCEPT ![i].readyState = "OPEN",
                                  ![i].sent = OpenSends(sockets[i].cfg)]
    /\ timerConnects' = 0
    /\ last' = "open"
    /\ UNCHANGED <<phase, cfg, socket, data, renderedSocket, renderedCount, cleanupSocket,
                   timers>>

\* Mutant of OnMessage: a decoded frame is kept only while data is null.
OnMessageKeepsFirst(i, f) ==
    /\ sockets[i].readyState = "OPEN"
    /\ IF JSONParse(f).ok
       THEN /\ data' = Set(IF data = Null THEN JSONParse(f).val ELSE data, data)
            /\ error' = error
       ELSE /\ data' = data
            /\ error' = Set(ParseError, error)
    /\ last' = (IF JSONParse(f).ok THEN Decoded(f) ELSE "decodeFailed")
    /\ UNCHANGED <<phase, cfg, socket, isConnected, reconnectCount, renderedSocket,
                   renderedCount, cleanupSocket, sockets, timers, timerConnects>>

\* Mutant of OnMessage: a decoded frame clears error.
OnMessageClearsError(i, f) ==
    /\ sockets[i].readyState = "OPEN"
    /\ IF JSONParse(f).ok
       THEN /\ data' = Set(JSONParse(f).val, data)
            /\ error' = Set(NoError, error)
       ELSE /\ data' = data
            /\ error' = Set(ParseError, error)
    /\ last' = (IF JSONParse(f).ok THEN Decoded(f) ELSE "decodeFailed")
    /\ UNCHANGED <<phase, cfg, socket, isConnected, reconnectCount, renderedSocket,
                   renderedCount, cleanupSocket, sockets, timers, timerConnects>>

\* Mutant of OnMessage: a frame that does not parse clears data.
OnMessageClearsData(i, f) ==
    /\ sockets[i].readyState = "OPEN"
    /\ IF JSONParse(f).ok
       THEN /\ data' = Set(JSONParse(f).val, data)
            /\ error' = error
       ELSE /\ data' = Set(Null, data)
            /\ error' = Set(ParseError, error)
    /\ last' = (IF JSONParse(f).ok THEN Decoded(f) ELSE "decodeFailed")
    /\ UNCHANGED <<phase, cfg, socket, isConnected, reconnectCount, renderedSocket,
                   renderedCount, cleanupSocket, sockets, timers, timerConnects>>

\* ws.onmessage of socket i with the frame f
OnMessage(i, f) ==
    /\ sockets[i].readyState = "OPEN"
    /\ IF JSONParse(f).ok
       THEN /\ data' = Set(JSONParse(f).val, data)
            /\ error' = error
       ELSE /\ data' = data
            /\ error' = Set(ParseError, error)
    /\ last' = (IF JSONParse(f).ok THEN Decoded(f) ELSE "decodeFailed")
    /\ UNCHANGED <<phase, cfg, socket, isConnected, reconnectCount, renderedSocket,
                   renderedCount, cleanupSocket, sockets, timers, timerConnects>>

\* The close of socket i: ws.onerror first when the connection failed, then
\* ws.onclose, both in the task that sets readyState to CLOSED.
OnClose(i, failed) ==
    /\ sockets[i].readyState \in {"CONNECTING", "OPEN", "CLOSING"}
    /\ sockets' = [sockets EXCEPT ![i].readyState = "CLOSED"]
    /\ LET afterError == IF failed THEN Set(TransportError, error) ELSE error
       IN  error' = Set(ClosedError, afterError)
    /\ isConnected' = Set(FALSE, isConnected)
    /\ timers' =
         IF ShouldReconnect(sockets[i].cfg, sockets[i].count)
         THEN timers \cup {[of |-> i, cfg |-> sockets[i].cfg, count |-> sockets[i].count,
                         delay |-> BackoffDelay(sockets[i].cfg, sockets[i].count)]}
         ELSE timers
    /\ last' = (IF failed THEN "error+close" ELSE "close")
    /\ UNCHANGED <<phase, cfg, socket, data, reconnectCount, renderedSocket, renderedCount,
                   cleanupSocket, timerConnects>>

\* The reconnect timer t fires: setReconnectCount(prev + 1), then connect() of
\* the render that created the closed socket.
TimerFire(t) ==
    /\ Len(sockets) < MaxSockets
    /\ reconnectCount' = Set(reconnectCount + 1, reconnectCount)
    /\ Connect(t.cfg, t.count, "timer", sockets, Live)
    /\ timers' = timers \ {t}
    /\ timerConnects' = timerConnects + 1
    /\ last' = "timer"
    /\ UNCHANGED <<phase, cfg, data, isConnected, renderedSocket, renderedCount,
                   cleanupSocket>>

\* sendMessage(m) of the last render
SendMessage(m) ==
    /\ Live
    /\ IF renderedSocket # 0 /\ sockets[renderedSocket].readyState = "OPEN"
       THEN /\ sockets' = [sockets EXCEPT ![renderedSocket].callerSent =
                             @ \cup {JSONStringify(m)}]
            /\ error' = error
       ELSE /\ sockets' = sockets
            /\ error' = NotConnectedError
    /\ last' = "sendMessage"
    /\ UNCHANGED <<phase, cfg, socket, data, isConnected, reconnectCount, renderedSocket,
                   renderedCount, cleanupSocket, timers, timerConnects>>

Next ==
    \/ Mount
    \/ \E c \in NextConfigs(cfg) : Render(c)
    \/ Unmount
    \/ \E i \in 1..Len(sockets) : OnOpen(i)
    \/ \E i \in 1..Len(sockets), f \in Frames : OnMessage(i, f)
    \/ \E i \in 1..Len(sockets), failed \in BOOLEAN : OnClose(i, failed)
    \/ \E t \in timers : TimerFire(t)
    \/ \E m \in Messages : SendMessage(m)

Spec == Init /\ [][Next]_vars
SpecControl == InitControl /\ [][Next]_vars


\* ------------------------------------------------------------------ claims
Indices == 1..Len(sockets)
LiveSockets == {i \in Indices : sockets[i].readyState \in {"CONNECTING", "OPEN"}}
CloseSeen == last \in {"close", "error+close"}

\* C1: with reconnect enabled and reconnectAttempts = N, while no socket reaches
\* OPEN the reconnect timers call connect() at most N times.
C1_AtMostNReconnects ==
    Reconnect(cfg) => timerConnects <= ReconnectAttempts(cfg)

\* C2: once the component is unmounted no connect() creates a socket.
C2_NoConnectAfterTeardown ==
    [][phase = "unmounted" => Len(sockets') = Len(sockets)]_vars

\* C3: at most one socket of the feed is CONNECTING or OPEN.
C3_OneLiveSocket == Cardinality(LiveSockets) <= 1

\* C4: the close of a socket whose config has reconnect = false schedules no
\* timer and leads to no connect(): no timer and no timer-made socket carries
\* such a config, and the close step leaves timers, sockets and connect's
\* dependencies as they were.
C4_NoReconnectWhenDisabled ==
    /\ [](/\ \A t \in timers : Reconnect(t.cfg)
          /\ \A i \in Indices : sockets[i].by = "timer" => Reconnect(sockets[i].cfg))
    /\ [][\A i \in Indices :
            (/\ sockets[i].readyState # "CLOSED"
             /\ sockets'[i].readyState = "CLOSED"
             /\ ~Reconnect(sockets[i].cfg))
            => /\ timers' = timers
               /\ Len(sockets') = Len(sockets)
               /\ reconnectCount' = reconnectCount
               /\ socket' = socket]_vars

\* C4 witness: a socket with reconnect = false and attempts left has closed.
C4_Witness ==
    /\ CloseSeen
    /\ \E i \in Indices :
          /\ sockets[i].readyState = "CLOSED"
          /\ ~Reconnect(sockets[i].cfg)
          /\ sockets[i].count < ReconnectAttempts(sockets[i].cfg)

\* C5: a reconnect timer is scheduled with delay interval * 2^k, k being
\* reconnectCount when it is scheduled.
C5_DelayUsesCounter ==
    [][Live => \A t \in timers' \ timers :
                  t.delay = ReconnectInterval(t.cfg) * Pow2(reconnectCount)]_vars

\* C6: reconnectCount is 0 right after an onopen, and only an onopen lowers it.
C6_ResetExactlyOnOpen ==
    /\ [](Live /\ last = "open" => reconnectCount = 0)
    /\ [][reconnectCount' < reconnectCount => last' = "open"]_vars

\* C6 witness: an onopen has reset a count that the last render saw above 0.
C6_Witness == Live /\ last = "open" /\ renderedCount > 0 /\ reconnectCount = 0

\* C7: a frame that does not parse, received while connected, sets error to the
\* parse failure and changes nothing else: isConnected stays true, socket,
\* sockets, reconnectCount, data and timers are as before.
C7_DecodeFailureOnlySetsError ==
    [][(Live /\ isConnected /\ last' = "decodeFailed")
        => /\ error' = ParseError
           /\ isConnected'
           /\ UNCHANGED <<socket, sockets, reconnectCount, data, timers>>]_vars

\* C7 witness: a frame failed to parse after another one had been decoded.
C7_Witness ==
    Live /\ last = "decodeFailed" /\ isConnected /\ error = ParseError /\ data # Null

\* C8: sendMessage called while isConnected is false (and the render is up to
\* date) transmits nothing and sets error to the not-connected message.
C8_SendWhileDisconnected ==
    [][(~isConnected /\ socket = renderedSocket /\ last' = "sendMessage")
        => sockets' = sockets /\ error' = NotConnectedError]_vars

\* The control messages the claim C9 expects for config c, as stated: one for a
\* configured apiKey, one for a configured subscribeMessage.
SendsIfConfigured(c) ==
    (IF c.apiKey # {} THEN <<AuthEnvelope(Some(c.apiKey))>> ELSE <<>>)
    \o (IF c.subscribeMessage # {}
           THEN <<JSONStringify(Some(c.subscribeMessage))>> ELSE <<>>)

\* The same for a usable (truthy) apiKey and subscribeMessage only.
SendsIfTruthy(c) ==
    (IF c.apiKey \notin {{}, {""}} THEN <<AuthEnvelope(Some(c.apiKey))>> ELSE <<>>)
    \o (IF c.subscribeMessage \notin {{}, {Num(0)}}
           THEN <<JSONStringify(Some(c.subscribeMessage))>> ELSE <<>>)

\* C9 as stated: an open socket has sent the auth envelope iff apiKey is
\* configured, then subscribeMessage iff it is configured.
C9_SendsIfConfigured ==
    \A i \in Indices :
        sockets[i].readyState = "OPEN" => sockets[i].sent = SendsIfConfigured(sockets[i].cfg)

\* C9 amended: an open socket has sent the auth envelope iff apiKey is a
\* non-empty string, then subscribeMessage iff it is truthy; a socket that has
\* not opened has sent nothing.
C9_SendsIfTruthy ==
    \A i \in Indices :
        /\ sockets[i].readyState = "OPEN" => sockets[i].sent = SendsIfTruthy(sockets[i].cfg)
        /\ sockets[i].readyState = "CONNECTING" => sockets[i].sent = <<>>

\* C9 witness: a socket opened with both configured and sent auth, then subscribe.
C9_Witness ==
    \E i \in Indices :
        /\ sockets[i].readyState = "OPEN"
        /\ sockets[i].sent = <<"{\"type\":\"auth\",\"apiKey\":\"k1\"}", "{\"x\":1}">>

\* C10: when the render is up to date, isConnected is true iff the current
\* socket is OPEN.
C10_FlagMatchesSocket ==
    (Live /\ socket = renderedSocket)
        => (isConnected <=> (socket # 0 /\ sockets[socket].readyState = "OPEN"))


DecodedFrames == {f \in Frames : JSONParse(f).ok}
DecodedSeen == \E f \in DecodedFrames : last = Decoded(f)

\* Display: the error alert replaces the market data while error is set.
DisplayShowsAlert == error # NoError

\* C11: once reconnectAttempts timer connects have been made with no open in
\* between, the feed is terminal: no reconnect timer is pending any more.
C11_TerminalAfterNAttempts ==
    (Reconnect(cfg) /\ timerConnects >= ReconnectAttempts(cfg)) => timers = {}

\* C12: a close that stops retrying because the attempts are exhausted exposes
\* an error other than the one exposed by a close that schedules a retry
\* (ClosedError).
C12_ExhaustionErrorDiffers ==
    [][\A i \in Indices :
          (/\ Live
           /\ sockets[i].readyState # "CLOSED"
           /\ sockets'[i].readyState = "CLOSED"
           /\ Reconnect(sockets[i].cfg)
           /\ sockets[i].count >= ReconnectAttempts(sockets[i].cfg))
          => error' # ClosedError]_vars

\* C13: right after the unmount the socket created last, if any, is CLOSING or
\* CLOSED.
C13_TeardownClosesSocket ==
    (last = "unmount" /\ Len(sockets) > 0)
        => sockets[Len(sockets)].readyState \in {"CLOSING", "CLOSED"}

\* C14: data changes only in a step that decodes a frame, and after a frame is
\* decoded (component mounted) data is that frame's parsed value.
C14_DataOnlyFromDecode ==
    [][/\ data' # data => \E f \in DecodedFrames : last' = Decoded(f)
       /\ \A f \in DecodedFrames :
             (Live /\ last' = Decoded(f)) => data' = JSONParse(f).val]_vars

\* C14 witness: a frame was decoded into data after an earlier decode failure.
C14_Witness ==
    Live /\ last = Decoded("{\"x\":1}") /\ data = Obj(1) /\ error = ParseError

\* C15: a socket is created only by the mount, by a timer firing, or by a
\* render that brings a changed config.
C15_SocketCreationCauses ==
    [][Len(sockets') > Len(sockets)
        => \/ last' \in {"mount", "timer"}
           \/ last' = "render" /\ cfg' # cfg]_vars

\* C16: while mounted, no socket of a superseded url is OPEN: the change closed
\* the open one, and no timer of the superseded config opens another.
C16_NoSocketOfSupersededConfig ==
    Live => \A i \in Indices :
                sockets[i].readyState = "OPEN" => sockets[i].cfg.url = cfg.url

\* C17: a step whose connect() fails to construct the socket sets error to the
\* construction failure, stores no socket, schedules no timer and leaves
\* isConnected, data and reconnectCount as they were.
C17_ConstructionFailure ==
    [][(\/ last' = "mount" /\ ~UrlParses(cfg.url)
        \/ /\ last' = "render"
           /\ DepsChanged(cfg, renderedCount, cfg', reconnectCount)
           /\ ~UrlParses(cfg'.url))
       => /\ error' = ConstructionError
          /\ Len(sockets') = Len(sockets)
          /\ socket' = socket
          /\ UNCHANGED <<timers, isConnected, data, reconnectCount>>]_vars

\* C17 witness: the re-run effect failed to construct a socket for a changed
\* url while the feed was connected and held data.
C17_Witness ==
    /\ Live /\ last = "render" /\ ~UrlParses(cfg.url)
    /\ error = ConstructionError /\ isConnected /\ data # Null /\ socket # 0

\* C18: 0 <= reconnectCount <= reconnectAttempts.
C18_CountWithinAttempts ==
    0 <= reconnectCount /\ reconnectCount <= ReconnectAttempts(cfg)

\* C19: at most one reconnect timer is pending, and none while a socket is
\* CONNECTING or OPEN.
C19_OneTimerNoLiveSocket ==
    Cardinality(timers) <= 1 /\ (timers # {} => LiveSockets = {})

\* C20: a decoded frame leaves error as it was, and an error is cleared only
\* by an onopen.
C20_DecodeKeepsError ==
    [][/\ (\E f \in DecodedFrames : last' = Decoded(f)) => error' = error
       /\ (error # NoError /\ error' = NoError) => last' = "open"]_vars

\* C20 witness: a frame was decoded while the error of a send without
\* connection is exposed, so Display shows the alert, not the data.
C20_Witness ==
    /\ Live /\ DecodedSeen /\ data = Obj(1)
    /\ error = NotConnectedError /\ DisplayShowsAlert

====
